---- MODULE Spec2Model ----
(***************************************************************************)
(* Model of src/grafana_service.ts: the aggregate fetch queryByMetric, the *)
(* streaming path DatasourceStream.query / _query with its read handler,   *)
(* the error classification in queryGrafana and getGrafanaUrl.             *)
(*                                                                         *)
(* A row [time, value] of the backend is identified by its time k (a       *)
(* positive integer).  A URL string is the sequence of its components      *)
(* <<origin, segment, ...>>, so that `${a}/${b}` is a \o b.               *)
(***************************************************************************)
EXTENDS Integers, Sequences, FiniteSets, TLC

\* CHUNK_SIZE of the source (50000), scaled down so that full and short
\* pages both occur within the bounds.
CHUNK_SIZE == 2

\* Bounds of the model.
MaxRows == 5
\* Transport requests and read calls, summed over the invocations.
MaxRequests == 4
MaxPulls == 2
\* Transport failures, summed over the invocations.
MaxFailures == 1

Invs == {1, 2}
Objs == {1, 2}

Min(a, b) == IF a < b THEN a ELSE b
Max(a, b) == IF a < b THEN b ELSE a

\* ---------------------------------------------------------------- inputs

Ranges == {<<2, 2>>, <<1, MaxRows>>, <<2, 1>>}

DashboardUrl == <<"https://host", "org1", "d", "abc">>
RootDashboardUrl == <<"https://host", "d", "abc">>

\* (metric.datasource.type, url) pairs a caller supplies.
Targets ==
  { [type |-> "influxdb", url |-> DashboardUrl],
    [type |-> "prometheus", url |-> RootDashboardUrl] }

\* new DatasourceStream(metric, url, apiKey): the two stream objects.
TargetOfObj(o) ==
  IF o = 1 THEN [type |-> "influxdb", url |-> DashboardUrl]
           ELSE [type |-> "prometheus", url |-> RootDashboardUrl]

\* What axios can reject with: an optional errno and an optional response.
\* Without a response (e.response undefined) the status is one the error
\* carries elsewhere, or 0 for none.
Failures ==
  { [errno |-> e, hasResponse |-> FALSE, status |-> s] :
      e \in {"ECONNREFUSED", "none"}, s \in {0, 401, 502} }
  \cup
  { [errno |-> e, hasResponse |-> TRUE, status |-> s] :
      e \in {"ECONNREFUSED", "none"}, s \in {401, 500, 502} }

NoFailure == [errno |-> "none", hasResponse |-> FALSE, status |-> -1]

\* ---------------------------------------------------------------- errors

UndefinedUrl == <<>>

DataKitError(kind, datasourceType, datasourceUrl) ==
  [kind |-> kind, datasourceType |-> datasourceType, datasourceUrl |-> datasourceUrl]

NoError == DataKitError("none", "undefined", UndefinedUrl)
BadRange(t, u) == DataKitError("BadRange", t, u)
GrafanaUnavailable == DataKitError("GrafanaUnavailable", "undefined", UndefinedUrl)
DatasourceUnavailable(t, u) == DataKitError("DatasourceUnavailable", t, u)
UnauthorizedError == DataKitError("Error:Unauthorized", "undefined", UndefinedUrl)
GenericError == DataKitError("Error", "undefined", UndefinedUrl)
\* reading .values of undefined
TypeError == DataKitError("TypeError", "undefined", UndefinedUrl)

\* queryGrafanaCatch that looks at the response before errno.
queryGrafanaCatch_responseFirst(e, datasourceType, queryUrl) ==
  IF e.hasResponse /\ e.status = 401 THEN UnauthorizedError
  ELSE IF e.hasResponse /\ e.status = 502 THEN DatasourceUnavailable(datasourceType, queryUrl)
  ELSE IF e.errno = "ECONNREFUSED" THEN GrafanaUnavailable
  ELSE GenericError

\* queryGrafanaCatch without the branch for status 401.
queryGrafanaCatch_no401(e, datasourceType, queryUrl) ==
  IF e.errno = "ECONNREFUSED" THEN GrafanaUnavailable
  ELSE IF e.hasResponse /\ e.status = 502 THEN DatasourceUnavailable(datasourceType, queryUrl)
  ELSE GenericError

\* The catch block of queryGrafana: the error thrown for transport failure e.
queryGrafanaCatch(e, datasourceType, queryUrl) ==
  IF e.errno = "ECONNREFUSED" THEN GrafanaUnavailable
  ELSE IF e.hasResponse /\ e.status = 401 THEN UnauthorizedError
  ELSE IF e.hasResponse /\ e.status = 502 THEN DatasourceUnavailable(datasourceType, queryUrl)
  ELSE GenericError

\* ------------------------------------------------------------------ URLs

\* parsedUrl.pathname as a sequence of tokens, "/" or a non-empty segment:
\* <<origin, "org1", "d", "abc">> has the pathname /org1/d/abc, an empty
\* segment stands for two slashes in a row, and a bare origin has "/".
RECURSIVE PathTokens(_)
PathTokens(segments) ==
  IF segments = <<>> THEN <<>>
  ELSE (IF Head(segments) = "" THEN <<"/">> ELSE <<"/", Head(segments)>>)
       \o PathTokens(Tail(segments))

Pathname(url) == IF Len(url) = 1 THEN <<"/">> ELSE PathTokens(Tail(url))

RECURSIVE LeadingSlashes(_)
LeadingSlashes(p) ==
  IF p = <<>> \/ Head(p) # "/" THEN 0 ELSE 1 + LeadingSlashes(Tail(p))

\* One way of matching /^\/*([^\/]*)\/d\// against p: \/* takes k slashes,
\* the group takes g tokens (a whole segment or nothing), then /d/ follows.
MatchesWith(p, k, g) ==
  /\ k <= LeadingSlashes(p)
  /\ g = 1 => (k + 1 <= Len(p) /\ p[k + 1] # "/")
  /\ k + g + 3 <= Len(p)
  /\ p[k + g + 1] = "/" /\ p[k + g + 2] = "d" /\ p[k + g + 3] = "/"

\* path.match(...): the ways that match, of which the regex engine takes the
\* one with the most slashes in \/* and then the longest group.
Matches(p) ==
  { m \in (0..Len(p)) \X {0, 1} : MatchesWith(p, m[1], m[2]) }

FirstMatch(p) ==
  CHOOSE m \in Matches(p) :
    \A n \in Matches(p) : n[1] < m[1] \/ (n[1] = m[1] /\ n[2] <= m[2])

\* getGrafanaUrl that drops the sub path of the match.
getGrafanaUrl_noSubPath(url) ==
  IF Matches(Pathname(url)) = {} THEN url ELSE <<url[1]>>

getGrafanaUrl(url) ==
  LET origin == url[1]
      p == Pathname(url)
  IN  IF Matches(p) = {} THEN url
      ELSE LET m == FirstMatch(p)
               grafanaSubPath == IF m[2] = 1 THEN p[m[1] + 1] ELSE ""
           IN  IF grafanaSubPath # "" THEN <<origin, grafanaSubPath>>
               ELSE <<origin>>

\* metricQuery.getQuery(from, to, limit, offset): the relative path of the
\* page request; the range, limit and offset travel with the request.
getQuery(from, to, limit, offset) ==
  [url |-> <<"api", "datasources", "proxy">>, from |-> from, to |-> to,
   limit |-> limit, offset |-> offset]

\* --------------------------------------------------------------- backend

Columns == <<"time", "value">>

\* The rows the backend holds in [from, to], in time order.
Matching(n, from, to) ==
  LET lo == Max(from, 1)
      hi == Min(to, n)
  IN  IF hi < lo THEN <<>> ELSE [k \in 1..(hi - lo + 1) |-> lo + k - 1]

\* In place of a number of rows: a backend that has a full page of rows (all
\* at time `from`) at every offset.
Endless == -1

\* getResults(res).values for the request (from, to, limit, offset).
BackendPage(n, q) ==
  IF n = Endless THEN [k \in 1..q.limit |-> q.from]
  ELSE LET m == Matching(n, q.from, q.to)
       IN  SubSeq(m, q.offset + 1, Min(Len(m), q.offset + q.limit))

\* ----------------------------------------------------------------- state

VARIABLES
  rows,          \* number of rows the backend holds (row k has time k)
  kind,          \* per invocation: "none", "aggregate" or "stream"
  pc,            \* per invocation: position of the call
  target,        \* per invocation: (datasource type, url) it was called with
  range,         \* per invocation: <<from, to>>
  values,        \* queryByMetric: data.values
  columns,       \* queryByMetric: data.columns
  result,        \* queryByMetric: the value the call returned
  reqs,          \* per invocation: the page requests handed to the transport
  err,           \* per invocation: the error the call (or its last read) raised
  failed,        \* per invocation: a transport request of it failed
  obj,           \* stream: the DatasourceStream object query() was called on
  currentChunk,  \* per DatasourceStream object: this.currentChunk
  gen,           \* stream: state of the generator returned by _query
  chunkLen,      \* stream: chunk.values.length of the page _query last yielded
  readSize,      \* stream: size of the read that awaits data.next()
  pulls,         \* stream: number of read calls so far
  pushed,        \* stream: the arguments of self.push, in order
  lastPull,      \* stream: what the last completed read saw and did
  streamErr,     \* stream: the error the Readable was destroyed with
  qgFailure,     \* queryGrafana alone: what axios rejects with (or NoFailure)
  qgContext,     \* queryGrafana alone: datasource.type and query.url
  qgOutcome,     \* queryGrafana alone: pending, returned, or the error thrown
  qgApiKey,      \* queryGrafana alone: the apiKey argument
  qgQuery,       \* queryGrafana alone: headers, method and schema of the query
  qgRequest,     \* queryGrafana alone: the axiosQuery handed to axios
  guUrl,         \* getGrafanaUrl alone: its argument
  guResult       \* getGrafanaUrl alone: what it returned (<<>> before the call)

vars == <<rows, kind, pc, target, range, values, columns, result, reqs, err,
          failed, obj, currentChunk, gen, chunkLen, readSize, pulls, pushed,
          lastPull, streamErr, qgFailure, qgContext, qgOutcome, qgApiKey, qgQuery,
          qgRequest, guUrl, guResult>>

aggVars == <<values, columns, result>>
streamVars == <<obj, currentChunk, gen, chunkLen, readSize, pulls, pushed,
                lastPull, streamErr>>
qgVars == <<qgFailure, qgContext, qgOutcome, qgApiKey, qgQuery, qgRequest>>
guVars == <<guUrl, guResult>>
\* What the calls of queryByMetric and of the streams leave alone.
aloneVars == <<qgVars, guVars>>
callVars == <<rows, kind, pc, target, range, values, columns, result, reqs, err,
              failed, obj, currentChunk, gen, chunkLen, readSize, pulls, pushed,
              lastPull, streamErr>>

NoTarget == [type |-> "undefined", url |-> UndefinedUrl]
NoResult == [returned |-> FALSE, values |-> <<>>, columns |-> <<>>]
NoPull == [size |-> 0, fetched |-> FALSE, exhausted |-> FALSE, settled |-> "none",
           buffer |-> <<>>, pushed |-> <<>>, rest |-> <<>>]

\* The items a read hands to self.push.
UndefinedItem == [tag |-> "undefined"]
EndOfStream == [tag |-> "null"]
TimeSeriesPoint(cols, vals) == [tag |-> "point", columns |-> cols, values |-> vals]

InitInvocations ==
  /\ kind = [i \in Invs |-> "none"]
  /\ pc = [i \in Invs |-> "idle"]
  /\ target = [i \in Invs |-> NoTarget]
  /\ range = [i \in Invs |-> <<0, 0>>]
  /\ values = [i \in Invs |-> <<>>]
  /\ columns = [i \in Invs |-> <<>>]
  /\ result = [i \in Invs |-> NoResult]
  /\ reqs = [i \in Invs |-> <<>>]
  /\ err = [i \in Invs |-> NoError]
  /\ failed = [i \in Invs |-> FALSE]
  /\ obj = [i \in Invs |-> 0]
  /\ currentChunk = [o \in Objs |-> <<>>]
  /\ gen = [i \in Invs |-> "none"]
  /\ chunkLen = [i \in Invs |-> 0]
  /\ readSize = [i \in Invs |-> 0]
  /\ pulls = [i \in Invs |-> 0]
  /\ pushed = [i \in Invs |-> <<>>]
  /\ lastPull = [i \in Invs |-> NoPull]
  /\ streamErr = [i \in Invs |-> NoError]

InitCalls ==
  /\ rows \in 0..MaxRows
  /\ InitInvocations

Pending == [state |-> "pending", error |-> NoError]
Returned == [state |-> "returned", error |-> NoError]
Thrown(e) == [state |-> "thrown", error |-> e]

\* Header values are sequences of words; a header an object does not have is
\* Absent, undefined and null are the JavaScript values.
Absent == <<>>
Undefined == <<"undefined">>
Null == <<"null">>
HeaderNames == {"Authorization", "Accept"}

\* An object of headers, or undefined or null in its place.
NoObject(k) == [kind |-> k, fields |-> [n \in HeaderNames |-> Absent]]
Object(f) == [kind |-> "object", fields |-> f]

NoQuery == [headers |-> NoObject("undefined"), method |-> Absent,
            schema |-> [kind |-> "undefined", headers |-> NoObject("undefined"),
                        method |-> Absent]]
NoRequest == [headers |-> NoObject("undefined"), method |-> Absent]

InitQueryGrafana ==
  /\ qgFailure = NoFailure
  /\ qgContext = NoTarget
  /\ qgOutcome = Pending
  /\ qgApiKey = "undefined"
  /\ qgQuery = NoQuery
  /\ qgRequest = NoRequest

InitGetGrafanaUrl ==
  /\ guUrl = UndefinedUrl
  /\ guResult = UndefinedUrl

Init ==
  /\ InitCalls
  /\ InitQueryGrafana
  /\ InitGetGrafanaUrl

RECURSIVE SumOver(_, _)
SumOver(S, f) ==
  IF S = {} THEN 0
  ELSE LET x == CHOOSE y \in S : TRUE IN f[x] + SumOver(S \ {x}, f)

TotalRequests == SumOver(Invs, [i \in Invs |-> Len(reqs[i])])
TotalPulls == SumOver(Invs, pulls)
TotalFailures == Cardinality({i \in Invs : failed[i]})

\* Invocations are numbered in the order they start, and so are the stream
\* objects they use (invocation i uses one of the objects 1..i).
IsNextInvocation(i) == kind[i] = "none" /\ \A j \in Invs : j < i => kind[j] # "none"

\* -------------------------------------------------------- range validator

\* RangeIsBad with the comparison turned around.
RangeIsBad_inverted(from, to) == from < to

\* RangeIsBad that also turns away the empty range from = to.
RangeIsBad_orEqual(from, to) == from >= to

\* if(from > to) throw new BadRange(...)
RangeIsBad(from, to) == from > to

\* The request for the next page: getQuery(...) with the url made absolute.
PageQuery(url, from, to, offset) ==
  [getQuery(from, to, CHUNK_SIZE, offset) EXCEPT
     !.url = getGrafanaUrl(url) \o getQuery(from, to, CHUNK_SIZE, offset).url]

\* IsLastPage that also takes a full page for the last one.
IsLastPage_orFull(n) == n <= CHUNK_SIZE

\* if(values.length < CHUNK_SIZE) break
IsLastPage(n) == n < CHUNK_SIZE

LastRequest(i) == reqs[i][Len(reqs[i])]

\* ----------------------------------------------------------- queryByMetric

\* AggregateOffset that never advances.
AggregateOffset_zero(vals) == 0

\* getQuery's offset argument in queryByMetric: data.values.length
AggregateOffset(vals) == Len(vals)

\* queryByMetric whose data accumulator outlives the call: a later call
\* starts from the values the call before it has collected.
queryByMetric_sharedData(i, t, r) ==
  /\ IsNextInvocation(i)
  /\ kind' = [kind EXCEPT ![i] = "aggregate"]
  /\ target' = [target EXCEPT ![i] = t]
  /\ range' = [range EXCEPT ![i] = r]
  /\ values' = [values EXCEPT ![i] = IF i > 1 THEN values[i - 1] ELSE <<>>]
  /\ IF RangeIsBad(r[1], r[2])
       THEN /\ pc' = [pc EXCEPT ![i] = "thrown"]
            /\ err' = [err EXCEPT ![i] = BadRange(t.type, t.url)]
       ELSE /\ pc' = [pc EXCEPT ![i] = "loop"]
            /\ err' = err
  /\ UNCHANGED <<rows, columns, result, reqs, failed, streamVars, aloneVars>>

queryByMetric(i, t, r) ==
  /\ IsNextInvocation(i)
  /\ kind' = [kind EXCEPT ![i] = "aggregate"]
  /\ target' = [target EXCEPT ![i] = t]
  /\ range' = [range EXCEPT ![i] = r]
  /\ IF RangeIsBad(r[1], r[2])
       THEN /\ pc' = [pc EXCEPT ![i] = "thrown"]
            /\ err' = [err EXCEPT ![i] = BadRange(t.type, t.url)]
       ELSE /\ pc' = [pc EXCEPT ![i] = "loop"]
            /\ err' = err
  /\ UNCHANGED <<rows, aggVars, reqs, failed, streamVars, aloneVars>>

\* AggregateRequest that does not wait for a page before asking for the one
\* after it: two requests go to the transport together.
AggregateRequest_prefetch(i) ==
  /\ kind[i] = "aggregate"
  /\ pc[i] = "loop"
  /\ TotalRequests + 1 < MaxRequests
  /\ reqs' = [reqs EXCEPT ![i] =
       @ \o <<PageQuery(target[i].url, range[i][1], range[i][2],
                        AggregateOffset(values[i]) + CHUNK_SIZE),
              PageQuery(target[i].url, range[i][1], range[i][2],
                        AggregateOffset(values[i]))>>]
  /\ pc' = [pc EXCEPT ![i] = "await"]
  /\ UNCHANGED <<rows, kind, target, range, aggVars, err, failed, streamVars, aloneVars>>

\* One iteration up to the await: the page request goes to the transport.
AggregateRequest(i) ==
  /\ kind[i] = "aggregate"
  /\ pc[i] = "loop"
  /\ TotalRequests < MaxRequests
  /\ reqs' = [reqs EXCEPT ![i] =
       Append(@, PageQuery(target[i].url, range[i][1], range[i][2],
                           AggregateOffset(values[i])))]
  /\ pc' = [pc EXCEPT ![i] = "await"]
  /\ UNCHANGED <<rows, kind, target, range, aggVars, err, failed, streamVars, aloneVars>>

\* The transport answers: the page is merged; a short page ends the loop.
AggregateResponse(i) ==
  /\ kind[i] = "aggregate"
  /\ pc[i] = "await"
  /\ LET page == BackendPage(rows, LastRequest(i))
         merged == values[i] \o page
     IN  /\ values' = [values EXCEPT ![i] = merged]
         /\ columns' = [columns EXCEPT ![i] = Columns]
         /\ IF IsLastPage(Len(page))
              THEN /\ pc' = [pc EXCEPT ![i] = "returned"]
                   /\ result' = [result EXCEPT ![i] =
                        [returned |-> TRUE, values |-> merged, columns |-> Columns]]
              ELSE /\ pc' = [pc EXCEPT ![i] = "loop"]
                   /\ result' = result
  /\ UNCHANGED <<rows, kind, target, range, reqs, err, failed, streamVars, aloneVars>>

\* AggregateFailure that catches the error and goes round the loop again.
AggregateFailure_retry(i, f) ==
  /\ kind[i] = "aggregate"
  /\ pc[i] = "await"
  /\ TotalFailures < MaxFailures
  /\ pc' = [pc EXCEPT ![i] = "loop"]
  /\ err' = [err EXCEPT ![i] =
       queryGrafanaCatch(f, target[i].type, LastRequest(i).url)]
  /\ failed' = [failed EXCEPT ![i] = TRUE]
  /\ UNCHANGED <<rows, kind, target, range, aggVars, reqs, streamVars, aloneVars>>

\* The transport fails with f: queryGrafana throws and the call ends.
AggregateFailure(i, f) ==
  /\ kind[i] = "aggregate"
  /\ pc[i] = "await"
  /\ TotalFailures < MaxFailures
  /\ pc' = [pc EXCEPT ![i] = "thrown"]
  /\ err' = [err EXCEPT ![i] =
       queryGrafanaCatch(f, target[i].type, LastRequest(i).url)]
  /\ failed' = [failed EXCEPT ![i] = TRUE]
  /\ UNCHANGED <<rows, kind, target, range, aggVars, reqs, streamVars, aloneVars>>

\* ----------------------------------------------------- DatasourceStream

PullSizes == {0, 1, CHUNK_SIZE + 1}

\* let returnedValuesLength = 0 in _query; no statement assigns it again.
returnedValuesLength == 0

\* AppendPoints that assigns the result of concat, and concats the points of
\* the whole page once per row.
AppendPoints_perRow(buffer, cols, vals) ==
  buffer \o [k \in 1..(Len(vals) * Len(vals)) |-> TimeSeriesPoint(cols, vals)]

\* The for-of loop of read over chunk.values: each iteration evaluates
\* this.currentChunk.concat(new TimeSeriesPoint(chunk.columns, chunk.values)).
\* Array.prototype.concat returns a new array and leaves this.currentChunk
\* as it was; the returned array is dropped.
AppendPoints(buffer, cols, vals) == buffer

\* The delivery loop of read: size times self.push(this.currentChunk.shift());
\* shift() of an empty array is undefined.
Delivered(buffer, size) ==
  [k \in 1..size |-> IF k <= Len(buffer) THEN buffer[k] ELSE UndefinedItem]

Remaining(buffer, size) == SubSeq(buffer, size + 1, Len(buffer))

\* data.next() finds the generator finished, or finishes it: _query breaks
\* after a short page, and stays finished after it threw.
Exhausted(i) ==
  \/ gen[i] = "done"
  \/ gen[i] = "suspended" /\ IsLastPage(chunkLen[i])

\* What the runtime does with the rejected promise a read returned: the
\* rejection is dropped (FALSE), or the stream is destroyed with it (TRUE).
RejectionOutcome(e, destroys) == IF destroys THEN e ELSE NoError

\* A read may start: the stream is open, no read of it is running, and it
\* was not destroyed.  read is modelled as called with the parameters it
\* declares, (self: Readable, size: number), one call at a time per stream.
CanRead(i) ==
  /\ kind[i] = "stream" /\ pc[i] = "open"
  /\ streamErr[i] = NoError
  /\ TotalPulls < MaxPulls

DatasourceStream_query(i, o, r) ==
  /\ IsNextInvocation(i)
  /\ o <= i
  /\ kind' = [kind EXCEPT ![i] = "stream"]
  /\ obj' = [obj EXCEPT ![i] = o]
  /\ target' = [target EXCEPT ![i] = TargetOfObj(o)]
  /\ range' = [range EXCEPT ![i] = r]
  /\ IF RangeIsBad(r[1], r[2])
       THEN /\ pc' = [pc EXCEPT ![i] = "thrown"]
            /\ err' = [err EXCEPT ![i] = BadRange(TargetOfObj(o).type, TargetOfObj(o).url)]
            /\ gen' = gen
       ELSE /\ pc' = [pc EXCEPT ![i] = "open"]
            /\ err' = err
            /\ gen' = [gen EXCEPT ![i] = "start"]
  /\ UNCHANGED <<rows, aggVars, reqs, failed, currentChunk, chunkLen, readSize,
                 pulls, pushed, lastPull, streamErr, aloneVars>>

\* read(self, size) with this.currentChunk.length >= size: no page is asked
\* for, the delivery loop runs at once.
ReadBuffered(i, size) ==
  /\ CanRead(i)
  /\ LET buffer == currentChunk[obj[i]]
     IN  /\ ~(Len(buffer) < size)
         /\ pulls' = [pulls EXCEPT ![i] = @ + 1]
         /\ pushed' = [pushed EXCEPT ![i] = @ \o Delivered(buffer, size)]
         /\ currentChunk' = [currentChunk EXCEPT ![obj[i]] = Remaining(buffer, size)]
         /\ lastPull' = [lastPull EXCEPT ![i] =
              [size |-> size, fetched |-> FALSE, exhausted |-> Exhausted(i),
               settled |-> "resolved", buffer |-> buffer,
               pushed |-> Delivered(buffer, size), rest |-> Remaining(buffer, size)]]
  /\ UNCHANGED <<rows, kind, pc, target, range, aggVars, reqs, err, failed, obj,
                 gen, chunkLen, readSize, streamErr, aloneVars>>

\* read(self, size) with this.currentChunk.length < size and a generator
\* that goes on: data.next() runs _query up to its await, the page request
\* goes to the transport.
ReadRequest(i, size) ==
  /\ CanRead(i)
  /\ Len(currentChunk[obj[i]]) < size
  /\ ~Exhausted(i)
  /\ TotalRequests < MaxRequests
  /\ pulls' = [pulls EXCEPT ![i] = @ + 1]
  /\ readSize' = [readSize EXCEPT ![i] = size]
  /\ reqs' = [reqs EXCEPT ![i] =
       Append(@, PageQuery(target[i].url, range[i][1], range[i][2],
                           returnedValuesLength))]
  /\ pc' = [pc EXCEPT ![i] = "await"]
  /\ UNCHANGED <<rows, kind, target, range, aggVars, err, failed, obj,
                 currentChunk, gen, chunkLen, pushed, lastPull, streamErr, aloneVars>>

\* read(self, size) with this.currentChunk.length < size and a finished
\* generator: (await data.next()).value is undefined, chunk.values throws.
ReadExhausted(i, size, destroys) ==
  /\ CanRead(i)
  /\ Len(currentChunk[obj[i]]) < size
  /\ Exhausted(i)
  /\ pulls' = [pulls EXCEPT ![i] = @ + 1]
  /\ gen' = [gen EXCEPT ![i] = "done"]
  /\ err' = [err EXCEPT ![i] = TypeError]
  /\ streamErr' = [streamErr EXCEPT ![i] = RejectionOutcome(TypeError, destroys)]
  /\ lastPull' = [lastPull EXCEPT ![i] =
       [size |-> size, fetched |-> FALSE, exhausted |-> TRUE,
        settled |-> "rejected", buffer |-> currentChunk[obj[i]],
        pushed |-> <<>>, rest |-> currentChunk[obj[i]]]]
  /\ UNCHANGED <<rows, kind, pc, target, range, aggVars, reqs, failed, obj,
                 currentChunk, chunkLen, readSize, pushed, aloneVars>>

\* The transport answers: _query yields the page, read flattens it and runs
\* its delivery loop.
ReadResponse(i) ==
  /\ kind[i] = "stream" /\ pc[i] = "await"
  /\ LET page == BackendPage(rows, LastRequest(i))
         buffer == AppendPoints(currentChunk[obj[i]], Columns, page)
         size == readSize[i]
     IN  /\ gen' = [gen EXCEPT ![i] = "suspended"]
         /\ chunkLen' = [chunkLen EXCEPT ![i] = Len(page)]
         /\ pushed' = [pushed EXCEPT ![i] = @ \o Delivered(buffer, size)]
         /\ currentChunk' = [currentChunk EXCEPT ![obj[i]] = Remaining(buffer, size)]
         /\ lastPull' = [lastPull EXCEPT ![i] =
              [size |-> size, fetched |-> TRUE, exhausted |-> FALSE,
               settled |-> "resolved", buffer |-> buffer,
               pushed |-> Delivered(buffer, size), rest |-> Remaining(buffer, size)]]
  /\ pc' = [pc EXCEPT ![i] = "open"]
  /\ readSize' = [readSize EXCEPT ![i] = 0]
  /\ UNCHANGED <<rows, kind, target, range, aggVars, reqs, err, failed, obj,
                 pulls, streamErr, aloneVars>>

\* The transport fails with f: queryGrafana throws inside _query, data.next()
\* rejects and so does read; the generator is finished.
ReadFailure(i, f, destroys) ==
  /\ kind[i] = "stream" /\ pc[i] = "await"
  /\ TotalFailures < MaxFailures
  /\ LET e == queryGrafanaCatch(f, target[i].type, LastRequest(i).url)
     IN  /\ err' = [err EXCEPT ![i] = e]
         /\ streamErr' = [streamErr EXCEPT ![i] = RejectionOutcome(e, destroys)]
  /\ gen' = [gen EXCEPT ![i] = "done"]
  /\ failed' = [failed EXCEPT ![i] = TRUE]
  /\ lastPull' = [lastPull EXCEPT ![i] =
       [size |-> readSize[i], fetched |-> FALSE, exhausted |-> FALSE,
        settled |-> "rejected", buffer |-> currentChunk[obj[i]],
        pushed |-> <<>>, rest |-> currentChunk[obj[i]]]]
  /\ pc' = [pc EXCEPT ![i] = "open"]
  /\ readSize' = [readSize EXCEPT ![i] = 0]
  /\ UNCHANGED <<rows, kind, target, range, aggVars, reqs, obj, currentChunk,
                 chunkLen, pulls, pushed, aloneVars>>

\* ------------------------------------------------------------- behaviour

Next ==
  \/ \E i \in Invs, t \in Targets, r \in Ranges : queryByMetric(i, t, r)
  \/ \E i \in Invs : AggregateRequest(i)
  \/ \E i \in Invs : AggregateResponse(i)
  \/ \E i \in Invs, f \in Failures : AggregateFailure(i, f)
  \/ \E i \in Invs, o \in Objs, r \in Ranges : DatasourceStream_query(i, o, r)
  \/ \E i \in Invs, size \in PullSizes : ReadBuffered(i, size)
  \/ \E i \in Invs, size \in PullSizes : ReadRequest(i, size)
  \/ \E i \in Invs, size \in PullSizes, d \in BOOLEAN : ReadExhausted(i, size, d)
  \/ \E i \in Invs : ReadResponse(i)
  \/ \E i \in Invs, f \in Failures, d \in BOOLEAN : ReadFailure(i, f, d)

Spec == Init /\ [][Next]_vars

\* ------------------------------------------------- queryGrafana alone

PlainUrl == <<"https://host", "other", "path">>
OriginUrl == <<"https://grafana.local:3000">>

\* (datasource.type, query.url) pairs queryGrafana is called with.
QueryContexts ==
  { [type |-> t, url |-> getGrafanaUrl(u) \o getQuery(0, 0, CHUNK_SIZE, 0).url] :
      t \in {"influxdb", "prometheus"},
      u \in {DashboardUrl, RootDashboardUrl, PlainUrl, OriginUrl} }

ApiKeys == {"key1", "key2"}

\* { Authorization: `Bearer ${apiKey}` }
Bearer(apiKey) == <<"Bearer", apiKey>>
BearerHeaders(apiKey) ==
  [n \in HeaderNames |-> IF n = "Authorization" THEN Bearer(apiKey) ELSE Absent]

\* query.headers as a query builder may return it: nothing, null, or an
\* object that may have an Authorization of its own.
QueryHeaders ==
  {NoObject("undefined"), NoObject("null")}
  \cup
  { Object([n \in HeaderNames |-> IF n = "Authorization" THEN a ELSE c]) :
      a \in {Absent, Undefined, Null, <<"Basic", "other">>},
      c \in {Absent, <<"application/json">>} }

\* query.schema: nothing, or more axios options, headers and method among them.
QuerySchemas ==
  {[kind |-> "undefined", headers |-> NoObject("undefined"), method |-> Absent]}
  \cup
  { [kind |-> "object", headers |-> h, method |-> m] :
      h \in {NoObject("undefined"),
              Object([n \in HeaderNames |->
                        IF n = "Authorization" THEN <<"Basic", "other">> ELSE Absent])},
      m \in {Absent, <<"POST">>} }

Queries ==
  { [headers |-> h, method |-> m, schema |-> sc] :
      h \in QueryHeaders, m \in {Undefined, <<"GET">>}, sc \in QuerySchemas }

\* _.merge(object, source) on objects of headers: a header of the source
\* replaces the one of the object, unless it is undefined and the object has
\* a value for it.
merge(object, source) ==
  IF source.kind # "object" THEN object
  ELSE [n \in HeaderNames |->
          LET srcValue == source.fields[n]
          IN  IF srcValue = Absent THEN object[n]
              ELSE IF srcValue = Undefined /\ object[n] # Absent THEN object[n]
              ELSE srcValue]

\* _.defaults(object, source) on the axios options: an option of the source
\* is taken only where the object's resolves to undefined.
defaults(object, source) ==
  IF source.kind # "object" THEN object
  ELSE [headers |-> IF object.headers.kind = "undefined" THEN source.headers
                    ELSE object.headers,
        method |-> IF object.method \in {Absent, Undefined} /\ source.method # Absent
                     THEN source.method
                   ELSE object.method]

\* The axiosQuery queryGrafana hands to axios.
AxiosQuery(apiKey, query) ==
  LET headers == IF query.headers.kind # "undefined"
                   THEN merge(BearerHeaders(apiKey), query.headers)
                   ELSE BearerHeaders(apiKey)
  IN  defaults([headers |-> Object(headers), method |-> query.method], query.schema)

InitClassify ==
  /\ InitCalls
  /\ InitGetGrafanaUrl
  /\ rows = 0
  /\ qgFailure \in Failures \cup {NoFailure}
  /\ qgContext \in QueryContexts
  /\ qgOutcome = Pending
  /\ qgApiKey \in ApiKeys
  /\ qgQuery \in Queries
  /\ qgRequest = NoRequest

\* queryGrafana: the request is built and handed to axios; await
\* axios(axiosQuery) answers, or rejects with qgFailure and the catch block
\* throws.
queryGrafana ==
  /\ qgOutcome = Pending
  /\ qgRequest' = AxiosQuery(qgApiKey, qgQuery)
  /\ qgOutcome' = IF qgFailure = NoFailure
                    THEN Returned
                    ELSE Thrown(queryGrafanaCatch(qgFailure, qgContext.type, qgContext.url))
  /\ UNCHANGED <<callVars, qgFailure, qgContext, qgApiKey, qgQuery, guVars>>

SpecClassify == InitClassify /\ [][queryGrafana]_vars

\* ------------------------------------------------ getGrafanaUrl alone

MaxSegments == 3

Origins == {"https://host", "https://grafana.local:3000"}
Segments == {"", "d", "org1", "abc"}

RECURSIVE SeqsUpTo(_, _)
SeqsUpTo(S, n) ==
  IF n = 0 THEN {<<>>}
  ELSE SeqsUpTo(S, n - 1)
       \cup {Append(q, x) : q \in {r \in SeqsUpTo(S, n - 1) : Len(r) = n - 1}, x \in S}

\* The URLs getGrafanaUrl is called with: an origin and up to MaxSegments path
\* segments.
Urls == { <<o>> \o q : o \in Origins, q \in SeqsUpTo(Segments, MaxSegments) }

InitUrl ==
  /\ InitCalls
  /\ InitQueryGrafana
  /\ rows = 0
  /\ guUrl \in Urls
  /\ guResult = UndefinedUrl

getGrafanaUrlCall ==
  /\ guResult = UndefinedUrl
  /\ guResult' = getGrafanaUrl(guUrl)
  /\ UNCHANGED <<callVars, qgVars, guUrl>>

SpecUrl == InitUrl /\ [][getGrafanaUrlCall]_vars

\* ---------------------------------- queryByMetric, transport never fails

\* One call of queryByMetric against a backend with 0..MaxRows rows or an
\* endless one; the transport answers every request.
InitFetch ==
  /\ rows \in (0..MaxRows) \cup {Endless}
  /\ InitInvocations
  /\ InitQueryGrafana
  /\ InitGetGrafanaUrl

NextFetch ==
  \/ \E t \in Targets, r \in Ranges : queryByMetric(1, t, r)
  \/ AggregateRequest(1)
  \/ AggregateResponse(1)

\* The event loop runs the call on: a request that can be made is made, and
\* the transport's answer is taken.
FairFetch == WF_vars(AggregateRequest(1)) /\ WF_vars(AggregateResponse(1))

SpecFetch == InitFetch /\ [][NextFetch]_vars /\ FairFetch

\* ------------------------------------------------------------ properties

Aggregates == {i \in Invs : kind[i] = "aggregate"}
Streams == {i \in Invs : kind[i] = "stream"}

\* The page the backend returns for the j-th request of invocation i.
PageOf(i, j) == BackendPage(rows, reqs[i][j])

RECURSIVE RowsUpTo(_, _)
RowsUpTo(i, j) == IF j = 0 THEN <<>> ELSE RowsUpTo(i, j - 1) \o PageOf(i, j)

\* C1: queryByMetric asks for page j at the offset that is the number of rows
\* of pages 1..j-1; when it returns it has made exactly k requests, k being the
\* first page shorter than CHUNK_SIZE, and its values are the rows of pages
\* 1..k in order (all the rows the backend holds in the range).
C1_PagingToFirstShortPage ==
  \A i \in Aggregates :
    LET k == Len(reqs[i])
    IN  /\ \A j \in 1..k : reqs[i][j].offset = Len(RowsUpTo(i, j - 1))
        /\ pc[i] = "returned" =>
             /\ k >= 1
             /\ Len(PageOf(i, k)) < CHUNK_SIZE
             /\ \A j \in 1..(k - 1) : ~(Len(PageOf(i, j)) < CHUNK_SIZE)
             /\ result[i].returned
             /\ result[i].values = RowsUpTo(i, k)
             /\ result[i].values = Matching(rows, range[i][1], range[i][2])

\* Two full pages and a short one: 2 * CHUNK_SIZE + 1 rows from 3 requests.
C1_Witness ==
  \E i \in Aggregates :
    /\ pc[i] = "returned"
    /\ Len(reqs[i]) = 3
    /\ Len(result[i].values) = 2 * CHUNK_SIZE + 1

\* C3: an invocation (aggregate or stream) called with from > to has thrown
\* BadRange carrying the datasource type and the url it was given, and has
\* made no transport request, now and ever after.
C3_BadRangeBeforeAnyRequest ==
  \A i \in Invs :
    (kind[i] # "none" /\ range[i][1] > range[i][2]) =>
      /\ pc[i] = "thrown"
      /\ err[i] = BadRange(target[i].type, target[i].url)
      /\ reqs[i] = <<>>
      /\ pulls[i] = 0

\* Both entry points were called with from > to, one after the other.
C3_Witness ==
  \E i, j \in Invs :
    /\ kind[i] = "aggregate" /\ kind[j] = "stream"
    /\ range[i][1] > range[i][2] /\ range[j][1] > range[j][2]
    /\ err[i].kind = "BadRange" /\ err[j].kind = "BadRange"

\* C4: when the transport fails, queryGrafana throws and does not return; the
\* error is, by the first case that applies: errno ECONNREFUSED ->
\* GrafanaUnavailable; response status 401 -> the Unauthorized error without
\* datasource type or url; response status 502 -> DatasourceUnavailable with
\* the datasource type and the query url; anything else -> the generic error.
C4_ErrorMapping ==
  (qgFailure # NoFailure /\ qgOutcome # Pending) =>
    /\ qgOutcome.state = "thrown"
    /\ LET e == qgOutcome.error
       IN  IF qgFailure.errno = "ECONNREFUSED"
             THEN e.kind = "GrafanaUnavailable"
           ELSE IF qgFailure.hasResponse /\ qgFailure.status = 401
             THEN /\ e.kind = "Error:Unauthorized"
                  /\ e.datasourceType = "undefined"
                  /\ e.datasourceUrl = UndefinedUrl
           ELSE IF qgFailure.hasResponse /\ qgFailure.status = 502
             THEN /\ e.kind = "DatasourceUnavailable"
                  /\ e.datasourceType = qgContext.type
                  /\ e.datasourceUrl = qgContext.url
           ELSE e.kind = "Error"

\* A 401 response without ECONNREFUSED was classified.
C4_Witness ==
  /\ qgFailure.errno = "none" /\ qgFailure.hasResponse /\ qgFailure.status = 401
  /\ qgOutcome.state = "thrown"

\* C5: once a read of a stream has completed and none is running, the buffer
\* (this.currentChunk, and what that read left in it) holds at most
\* CHUNK_SIZE points.
C5_BufferAtMostOnePage ==
  \A i \in Streams :
    (lastPull[i].settled # "none" /\ pc[i] = "open") =>
      /\ Len(currentChunk[obj[i]]) <= CHUNK_SIZE
      /\ Len(lastPull[i].rest) <= CHUNK_SIZE

\* A read smaller than a page completed after a full page was fetched.
C5_Witness ==
  \E i \in Streams :
    /\ pc[i] = "open"
    /\ lastPull[i].fetched /\ lastPull[i].size = 1
    /\ chunkLen[i] = CHUNK_SIZE

\* The errors queryGrafana can throw for the last request of invocation i.
ClassifiedErrors(i) ==
  { queryGrafanaCatch(f, target[i].type, LastRequest(i).url) : f \in Failures }

\* C9: when the transport fails on a page request of queryByMetric, the call
\* throws the classified error at that step without a further request,
\* returns no result, and never makes another request afterwards.
C9_FailureAbortsAggregate ==
  [][\A i \in Invs :
       (kind'[i] = "aggregate" /\ failed'[i]) =>
         /\ pc'[i] = "thrown"
         /\ err'[i] \in ClassifiedErrors(i)
         /\ ~result'[i].returned
         /\ reqs'[i] = reqs[i]
         /\ ~failed[i] => pc[i] = "await"]_vars

\* The second page request failed: one page of rows was dropped.
C9_Witness ==
  \E i \in Aggregates :
    /\ failed[i] /\ pc[i] = "thrown"
    /\ Len(reqs[i]) = 2
    /\ Len(values[i]) = CHUNK_SIZE
    /\ ~result[i].returned

\* The point a stream is meant to push for row v of a page.
PointOfRow(v) == TimeSeriesPoint(Columns, v)

\* C2: what a stream has pushed so far is, item by item, the points of the
\* rows queryByMetric returns for the same range, in the same order, and a
\* stream that found its producer exhausted has pushed all of them.
C2_StreamDeliversAggregateRows ==
  \A a \in Aggregates : \A s \in Streams :
    (pc[a] = "returned" /\ range[s] = range[a]) =>
      /\ Len(pushed[s]) <= Len(result[a].values)
      /\ \A k \in 1..Len(pushed[s]) : pushed[s][k] = PointOfRow(result[a].values[k])
      /\ lastPull[s].exhausted => Len(pushed[s]) = Len(result[a].values)

\* C6: a read of size N that completed pushed the first min(N, buffered)
\* points of the buffer in order and left the others in the buffer in order.
C6_DeliversFrontOfBuffer ==
  \A i \in Streams :
    lastPull[i].settled = "resolved" =>
      LET n == Min(lastPull[i].size, Len(lastPull[i].buffer))
      IN  /\ lastPull[i].pushed = SubSeq(lastPull[i].buffer, 1, n)
          /\ lastPull[i].rest = SubSeq(lastPull[i].buffer, n + 1, Len(lastPull[i].buffer))
          /\ Len(lastPull[i].pushed) <= lastPull[i].size

\* C7: a read (of a size above 0) that found the producer exhausted and the
\* buffer empty completed normally and pushed the end-of-stream signal,
\* nothing else.
C7_EndOfStreamWhenExhausted ==
  \A i \in Streams :
    (lastPull[i].settled # "none" /\ lastPull[i].size > 0
     /\ lastPull[i].exhausted /\ lastPull[i].buffer = <<>>) =>
      /\ lastPull[i].settled = "resolved"
      /\ lastPull[i].pushed = <<EndOfStream>>

\* C8: once a page request of a stream has failed, the stream is terminated
\* with the classified error, and no later read pushes anything or makes a
\* transport request.
C8_FailureTerminatesStream ==
  [][\A i \in Invs :
       (kind'[i] = "stream" /\ failed'[i]) =>
         /\ streamErr'[i] \in ClassifiedErrors(i)
         /\ reqs'[i] = reqs[i]
         /\ pushed'[i] = pushed[i]]_vars

\* C10: a read of one stream invocation never works on the buffer another
\* invocation uses: while a read of invocation i awaits its page, a step in
\* which invocation j reads (its count of reads or its running read changes)
\* happens on another object than the one i reads from.
C10_BufferOwnedByOneInvocation ==
  [][\A i, j \in Invs :
       (i # j /\ kind[i] = "stream" /\ kind[j] = "stream" /\ pc[i] = "await"
        /\ (pulls'[j] # pulls[j] \/ pc'[j] # pc[j])) =>
         obj[j] # obj[i]]_vars

\* The path segments of a URL without the empty ones at the front (extra
\* slashes before the first segment).
RECURSIVE DropEmpty(_)
DropEmpty(q) == IF q # <<>> /\ Head(q) = "" THEN DropEmpty(Tail(q)) ELSE q

PathSegments(url) == DropEmpty(Tail(url))

\* The path is /<sub>/d/... with a non-empty <sub>.
HasSubPathDashboard(url) ==
  LET q == PathSegments(url) IN Len(q) >= 3 /\ q[2] = "d"

\* The path is /d/...
HasRootDashboard(url) ==
  LET q == PathSegments(url) IN Len(q) >= 2 /\ q[1] = "d"

\* C11: getGrafanaUrl maps a URL whose path is /<sub>/d/... with a non-empty
\* <sub> to origin + "/" + <sub>; otherwise a URL whose path is /d/... to the
\* origin; and returns a URL with neither dashboard prefix unchanged
\* (https://host/org1/d/abc -> https://host/org1, https://host/d/abc ->
\* https://host, https://host/other/path unchanged).
C11_EndpointDerivation ==
  /\ guResult # UndefinedUrl =>
       guResult = IF HasSubPathDashboard(guUrl)
                    THEN <<guUrl[1], PathSegments(guUrl)[1]>>
                  ELSE IF HasRootDashboard(guUrl) THEN <<guUrl[1]>>
                  ELSE guUrl
  /\ getGrafanaUrl(DashboardUrl) = <<"https://host", "org1">>
  /\ getGrafanaUrl(RootDashboardUrl) = <<"https://host">>
  /\ getGrafanaUrl(PlainUrl) = PlainUrl

C11_Witness ==
  /\ guUrl = DashboardUrl
  /\ guResult = <<"https://host", "org1">>

\* One sequence is the beginning of the other.
IsPrefix(a, b) == Len(a) <= Len(b) /\ SubSeq(b, 1, Len(a)) = a

\* Two queryByMetric calls with the same metric, URL and range (the backend
\* and the API key are the same for every call).
SameCall(i, j) ==
  /\ i \in Aggregates /\ j \in Aggregates
  /\ i # j
  /\ target[i] = target[j]
  /\ range[i] = range[j]

\* C12: two queryByMetric calls with the same metric, URL, range and API key
\* against an unchanged backend issue the same sequence of requests (same URLs
\* and offsets) and return identical columns and values: the first call leaves
\* nothing behind that changes the second.
C12_RepeatableAggregate ==
  \A i \in Invs, j \in Invs :
    SameCall(i, j) =>
      /\ IsPrefix(reqs[i], reqs[j]) \/ IsPrefix(reqs[j], reqs[i])
      /\ (pc[i] = "returned" /\ pc[j] = "returned") =>
           /\ reqs[i] = reqs[j]
           /\ result[i] = result[j]

C12_Witness ==
  /\ SameCall(1, 2)
  /\ pc[1] = "returned" /\ pc[2] = "returned"
  /\ Len(reqs[1]) = 2 /\ Len(reqs[2]) = 2
  /\ result[2].values # <<>>

\* Calls of either entry point with from = to.
PointRange(i) == kind[i] # "none" /\ range[i][1] = range[i][2]

FirstPageQuery(i) == PageQuery(target[i].url, range[i][1], range[i][2], 0)

\* C13: with from = to neither queryByMetric nor DatasourceStream.query raises
\* an error (a call only ends in an error the transport or a later read caused,
\* never BadRange), and paging goes on as for from < to: queryByMetric does
\* not return, and a read that needs points does not complete, without the
\* first page request having been issued.
C13_EqualBoundsStillPage ==
  \A i \in Invs :
    PointRange(i) =>
      /\ err[i].kind # "BadRange"
      /\ pc[i] = "thrown" => failed[i]
      /\ pc[i] \in {"returned", "await"} \/ gen[i] \in {"suspended", "done"} =>
           /\ Len(reqs[i]) >= 1
           /\ reqs[i][1] = FirstPageQuery(i)
      /\ (kind[i] = "aggregate" /\ pc[i] = "returned") =>
           result[i].values = Matching(rows, range[i][1], range[i][2])

C13_Witness ==
  /\ PointRange(1) /\ PointRange(2)
  /\ kind[1] = "aggregate" /\ pc[1] = "returned" /\ result[1].values # <<>>
  /\ kind[2] = "stream" /\ gen[2] = "suspended" /\ Len(reqs[2]) = 1

\* C14: every request queryGrafana hands to the transport carries the
\* Authorization header `Bearer <apiKey>` made from the apiKey argument,
\* whatever headers and schema the query builder returned: merging them never
\* removes or replaces it.
C14_BearerHeaderKept ==
  qgOutcome # Pending =>
    /\ qgRequest.headers.kind = "object"
    /\ qgRequest.headers.fields["Authorization"] = Bearer(qgApiKey)

\* C15: _query pages as queryByMetric does: the k-th request of a stream is
\* the page query at the offset that is the number of rows of pages 1..k-1,
\* and no request follows a page shorter than CHUNK_SIZE.
C15_StreamPagesLikeAggregate ==
  \A i \in Streams :
    \A k \in 1..Len(reqs[i]) :
      /\ reqs[i][k] = PageQuery(target[i].url, range[i][1], range[i][2],
                                Len(RowsUpTo(i, k - 1)))
      /\ k > 1 => ~IsLastPage(Len(PageOf(i, k - 1)))

\* C16: a read of size N refills before it delivers: when the delivery loop
\* of a read that completed starts, the buffer holds at least N points or the
\* producer is exhausted, and the page a read has fetched is in the buffer as
\* one point per row.
C16_RefillBeforeDelivery ==
  \A i \in Streams :
    lastPull[i].settled = "resolved" =>
      /\ Len(lastPull[i].buffer) >= lastPull[i].size \/ Exhausted(i)
      /\ lastPull[i].fetched =>
           \E k \in 0..Len(lastPull[i].buffer) :
             SubSeq(lastPull[i].buffer, k + 1, Len(lastPull[i].buffer))
               = [n \in 1..Len(PageOf(i, Len(reqs[i]))) |->
                    PointOfRow(PageOf(i, Len(reqs[i]))[n])]

\* Invocation i has a request with the transport that is not yet answered.
Outstanding(i) == pc[i] = "await"

\* C17: pages are fetched one after the other within an invocation: a step
\* hands at most one request of an invocation to the transport, only when no
\* request of that invocation is outstanding (the page before it was
\* answered), and the request stays outstanding until the transport answers
\* or fails; a stream asks for a page only inside a read whose size the buffer
\* does not cover, so no page is fetched ahead of demand.
C17_OneRequestAtATime ==
  [][\A i \in Invs :
       /\ Len(reqs'[i]) > Len(reqs[i]) =>
            /\ Len(reqs'[i]) = Len(reqs[i]) + 1
            /\ ~Outstanding(i)
            /\ Outstanding(i)'
            /\ kind[i] = "stream" =>
                 /\ readSize'[i] > Len(currentChunk[obj[i]])
                 /\ pulls'[i] = pulls[i] + 1
       /\ (Outstanding(i) /\ Outstanding(i)') => UNCHANGED <<reqs[i], values[i], pulls[i]>>
    ]_vars

C17_Witness ==
  /\ kind[1] = "aggregate" /\ Len(reqs[1]) = 2 /\ Outstanding(1)
  /\ kind[2] = "stream" /\ Len(reqs[2]) = 2 /\ Outstanding(2)

\* C19: a transport failure with errno ECONNREFUSED is raised as
\* GrafanaUnavailable whatever response it carries, status 401 and 502
\* included, never as Unauthorized or DatasourceUnavailable; and a failure is
\* raised as Unauthorized or DatasourceUnavailable only when it has a response
\* object (with status 401, respectively 502).
C19_ConnectionRefusedWins ==
  (qgFailure # NoFailure /\ qgOutcome # Pending) =>
    LET e == qgOutcome.error
    IN  /\ qgFailure.errno = "ECONNREFUSED" => e = GrafanaUnavailable
        /\ e.kind = "Error:Unauthorized" =>
             qgFailure.hasResponse /\ qgFailure.status = 401
        /\ e.kind = "DatasourceUnavailable" =>
             qgFailure.hasResponse /\ qgFailure.status = 502
        /\ (~qgFailure.hasResponse /\ qgFailure.errno # "ECONNREFUSED") => e = GenericError

\* A refused connection that came with a 401 response was classified.
C19_Witness ==
  /\ qgFailure.errno = "ECONNREFUSED" /\ qgFailure.hasResponse /\ qgFailure.status = 401
  /\ qgOutcome = Thrown(GrafanaUnavailable)

\* The pages invocation i has received so far.
PagesReceived(i) == IF Outstanding(i) THEN Len(reqs[i]) - 1 ELSE Len(reqs[i])

ShortPageReceived(i) ==
  \E j \in 1..PagesReceived(i) : IsLastPage(Len(PageOf(i, j)))

\* C18: with a transport that never fails, queryByMetric has returned exactly
\* when a page shorter than CHUNK_SIZE has been received, so at once after the
\* first such page, and a backend that holds finitely many rows leads to
\* that; against a backend that answers every request with a full page it
\* never returns and goes on issuing requests (here up to MaxRequests).
C18_AggregateTermination ==
  /\ [](kind[1] = "aggregate" =>
          /\ pc[1] = "returned" <=> ShortPageReceived(1)
          /\ rows = Endless => ~ShortPageReceived(1))
  /\ (rows # Endless /\ pc[1] = "loop") ~> (pc[1] = "returned")
  /\ (rows = Endless /\ pc[1] = "loop") ~> (Len(reqs[1]) = MaxRequests)

C18_Witness ==
  /\ rows = Endless
  /\ kind[1] = "aggregate" /\ pc[1] = "loop"
  /\ Len(reqs[1]) >= 3

====
